---- MODULE Spec2Model ----
(***************************************************************************)
(* Model of the cluster-topology visualizer of the Starquill web app:      *)
(*   - ClusterVisualization (fetch of /api/cluster, bounds tracker,        *)
(*     automatic circle layout, document-level listeners, the circle,      *)
(*     grid and random strategies of handleRearrange),                     *)
(*   - ConnectionLines (one line per worker),                              *)
(*   - VisualizationContainer (its own bounds tracker, drag clamp),        *)
(*   - NodeRenderer (per-node drag state, element-level pointer handlers), *)
(*   - the WorkerNodes page (two reads joined by ip),                      *)
(*   - the ControlPlane page (fetch on mount and Refresh button).          *)
(*                                                                         *)
(* Coordinates are JavaScript numbers in the source; here they are         *)
(* fixed-point integers in units of 1/Scale pixel.  An absent value        *)
(* (null/undefined state) is the empty sequence, a present value v is <<v>>.*)
(***************************************************************************)
EXTENDS Integers, Sequences, FiniteSets, TLC

(* ------------------------------ bounds --------------------------------- *)
MaxWorkers == 1
MaxDetails == 2
MaxResizes == 1
MaxPointerEvents == 4
MaxCPFetches == 4
MaxLayoutWorkers == 3
MaxLabelWorkers == 10

(* --------------------------- number encoding --------------------------- *)
Scale == 1000
TrigUnit == 1000
NaN == 0 - 2000000000
Undefined == NaN + 1

Px(n) == n * Scale

Null == <<>>
Some(v) == <<v>>

IsNumber(a) == a # NaN /\ a # Undefined

Infinity == 2000000000

IsFinite(a) == IsNumber(a) /\ a # Infinity /\ a # 0 - Infinity

\* a / b on JavaScript numbers (b = 0: NaN or an infinity)
JsDiv(a, b) ==
  IF b = 0 THEN (IF a = 0 THEN NaN ELSE IF a > 0 THEN Infinity ELSE 0 - Infinity)
  ELSE a \div b

\* a - b on JavaScript numbers: anything involving undefined or NaN is NaN
JsSub(a, b) == IF IsNumber(a) /\ IsNumber(b) THEN a - b ELSE NaN

\* Math.min / Math.max: NaN if either argument is NaN
MathMin(a, b) == IF ~IsNumber(a) \/ ~IsNumber(b) THEN NaN ELSE IF a <= b THEN a ELSE b

MathMax(a, b) == IF ~IsNumber(a) \/ ~IsNumber(b) THEN NaN ELSE IF a >= b THEN a ELSE b

\* Math.cos / Math.sin of 2*pi*index/total in units of 1/TrigUnit, for the
\* angles 360*index/total that are whole degrees
Degrees(index, total) == (360 * index) \div total

MathCos(deg) ==
  CASE deg = 0 -> 1000 [] deg = 60 -> 500 [] deg = 72 -> 309 [] deg = 90 -> 0
    [] deg = 120 -> 0 - 500 [] deg = 144 -> 0 - 809 [] deg = 180 -> 0 - 1000
    [] deg = 216 -> 0 - 809 [] deg = 240 -> 0 - 500 [] deg = 270 -> 0
    [] deg = 288 -> 309 [] deg = 300 -> 500
    [] deg = 36 -> 809 [] deg = 108 -> 0 - 309 [] deg = 252 -> 0 - 309 [] deg = 324 -> 809

MathSin(deg) ==
  CASE deg = 0 -> 0 [] deg = 60 -> 866 [] deg = 72 -> 951 [] deg = 90 -> 1000
    [] deg = 120 -> 866 [] deg = 144 -> 588 [] deg = 180 -> 0
    [] deg = 216 -> 0 - 588 [] deg = 240 -> 0 - 866 [] deg = 270 -> 0 - 1000
    [] deg = 288 -> 0 - 951 [] deg = 300 -> 0 - 866
    [] deg = 36 -> 588 [] deg = 108 -> 951 [] deg = 252 -> 0 - 951 [] deg = 324 -> 0 - 588

(* --------------------------- environment ------------------------------- *)
\* Boxes getBoundingClientRect() can report for .visualization-container
\* (as high as its h-[500px] parent, as wide as the page leaves it)
DomRects ==
  { [left |-> Px(100), top |-> Px(40), width |-> Px(400), height |-> Px(500)],
    [left |-> Px(200), top |-> Px(40), width |-> Px(80),  height |-> Px(500)] }

\* The /api/cluster payloads: a control plane and k workers
WorkerIp(i) == <<"10.0.0.", i + 1>>

ClusterPayload(k) ==
  [control_plane |-> [ip |-> WorkerIp(0)],
   workers |-> [i \in 1..k |-> [ip |-> WorkerIp(i)]]]

ClusterPayloads == { ClusterPayload(k) : k \in 0..MaxWorkers }

\* payloads whose ip fields hold host names, and the payloads tried for the
\* node cards, details modal and glyph labels
HostName(i) == <<"worker", i, ".local">>

HostPayload(k) ==
  [control_plane |-> [ip |-> <<"control-plane", 0, ".local">>],
   workers |-> [i \in 1..k |-> [ip |-> HostName(i)]]]

DetailPayloads ==
  { ClusterPayload(k) : k \in {0, 1, MaxLabelWorkers} }
    \cup { HostPayload(k) : k \in {1, MaxLabelWorkers} }

\* `worker${index + 1}`
WorkerId(n) == <<"worker", n>>

ControlKey == <<"control", 0>>

MaxKeys == IF MaxLayoutWorkers > MaxWorkers THEN MaxLayoutWorkers ELSE MaxWorkers

AllKeys == {ControlKey} \cup { WorkerId(n) : n \in 1..MaxKeys }

\* The boxes and payloads tried for the layout strategies
LayoutRects ==
  { [left |-> Px(100), top |-> Px(40), width |-> Px(800), height |-> Px(500)],
    [left |-> Px(100), top |-> Px(40), width |-> Px(400), height |-> Px(500)],
    [left |-> Px(100), top |-> Px(40), width |-> Px(200), height |-> Px(500)],
    [left |-> Px(100), top |-> Px(40), width |-> Px(150), height |-> Px(500)] }

LayoutPayloads == { ClusterPayload(k) : k \in 0..MaxLayoutWorkers }

\* values of Math.random(), in units of 1/RandomUnit
RandomUnit == 1000

Layouts == {"circle", "grid", "random"}

\* Half of the rendered width/height of a node glyph (p-4 around a w-12 h-12
\* icon and two text lines), and the p-3 padding between the container box
\* and the positioned parent of the glyphs
GlyphHalfW == 60
GlyphHalfH == 62
containerPad == 12

\* Pointer positions tried relative to a glyph centre, and one far from all
PointerDeltas == { [x |-> Px(0 - 25), y |-> Px(0 - 25)], [x |-> Px(58), y |-> Px(58)] }

FarPoint == [x |-> Px(0 - 900), y |-> Px(0 - 900)]

VARIABLES
  cvMounted,        \* ClusterVisualization is mounted
  cvFetch,          \* "inflight", "parsing", "ok", "rejected", "malformed"
  clusterData,      \* ClusterVisualization.clusterData
  nodes,            \* ClusterVisualization.nodes
  cvDraggedNode,    \* ClusterVisualization.draggedNode
  cvDragOffset,     \* ClusterVisualization.dragOffset
  cvBounds,         \* ClusterVisualization.containerBounds
  cvTimer,          \* the 100 ms updateBounds timer of ClusterVisualization is pending
  cvResize,         \* its window resize listener is registered
  docMouseMove,     \* number of mousemove listeners of the component on document
  docMouseUp,       \* number of mouseup listeners of the component on document
  vcBounds,         \* VisualizationContainer.containerBounds
  vcTimer,          \* the 100 ms updateBounds timer of VisualizationContainer is pending
  vcResize,         \* its window resize listener is registered
  nrDragged,        \* NodeRenderer.draggedNode, per node
  nrOffset,         \* NodeRenderer.dragOffset, per node
  domRect,          \* the box of .visualization-container in the page
  ptr,              \* pointer position (client coordinates)
  button,           \* the mouse button is held down
  nPointer,         \* pointer events delivered so far
  nResize,          \* resize events delivered so far
  lastEvent,        \* the event handled by the last step
  edges,            \* the <line> elements ConnectionLines has rendered (Null: no svg)
  wnMounted,        \* WorkerNodes is mounted
  wnWorkers,        \* WorkerNodes.workers
  wnClusterData,    \* WorkerNodes.clusterData
  wnLoading,        \* WorkerNodes.loading
  wnError,          \* WorkerNodes.error
  wnPc,             \* position of WorkerNodes.fetchData: "fetching", "parsing", "done"
  wnReq,            \* the two requests: "pending", "response", "rejected"
  wnBody,           \* the two response.json() results, once settled
  cpMounted,        \* ControlPlane is mounted
  cpInfo,           \* ControlPlane.controlPlaneInfo
  cpLoading,        \* ControlPlane.loading
  cpError,          \* ControlPlane.error
  cpShowCertificates, \* ControlPlane.showCertificates
  cpInFlight,       \* the calls of ControlPlane.fetchData that have not completed
  cpStarted,        \* number of calls of ControlPlane.fetchData so far
  cpShown,          \* the call of fetchData whose completion last set the state (0: none)
  selectedNode      \* ClusterVisualization.selectedNode

wnVars == << wnMounted, wnWorkers, wnClusterData, wnLoading, wnError, wnPc, wnReq, wnBody >>

cpVars == << cpMounted, cpInfo, cpLoading, cpError, cpShowCertificates, cpInFlight, cpStarted,
            cpShown >>

uiVars == << selectedNode >>

cvVars == << cvMounted, cvFetch, clusterData, nodes, cvDraggedNode, cvDragOffset,
             cvBounds, cvTimer, cvResize, docMouseMove, docMouseUp, vcBounds,
             vcTimer, vcResize, nrDragged, nrOffset, domRect, ptr, button,
             nPointer, nResize, lastEvent, edges >>

vars == << cvVars, wnVars, cpVars, uiVars >>

(* ----------------------- ClusterVisualization -------------------------- *)
\* useState({ width: 0, height: 0 })
InitialBounds == [left |-> Undefined, top |-> Undefined, width |-> 0, height |-> 0]

\* the circle with the radius taken from the larger side of the bounds
CircleWorkersMaxRadius(cd, b) ==
  LET totalWorkers == Len(cd.workers)
      radius == (MathMax(b.width, b.height) * 3) \div 10
      centerX == b.width \div 2
      centerY == b.height \div 2
  IN [index \in 1..totalWorkers |->
        LET angle == Degrees(index - 1, totalWorkers)
        IN [id |-> WorkerId(index),
            x |-> centerX + (radius * MathCos(angle)) \div TrigUnit,
            y |-> centerY + (radius * MathSin(angle)) \div TrigUnit,
            ip |-> cd.workers[index].ip]]

\* the worker entries of the automatic layout / arrangeInCircle
CircleWorkers(cd, b) ==
  LET totalWorkers == Len(cd.workers)
      radius == (MathMin(b.width, b.height) * 3) \div 10
      centerX == b.width \div 2
      centerY == b.height \div 2
  IN [index \in 1..totalWorkers |->
        LET angle == Degrees(index - 1, totalWorkers)
        IN [id |-> WorkerId(index),
            x |-> centerX + (radius * MathCos(angle)) \div TrigUnit,
            y |-> centerY + (radius * MathSin(angle)) \div TrigUnit,
            ip |-> cd.workers[index].ip]]

CircleLayout(cd, b) ==
  [controlPlane |-> [x |-> b.width \div 2, y |-> b.height \div 2, ip |-> cd.control_plane.ip],
   workers |-> CircleWorkers(cd, b)]

\* useEffect(..., [clusterData, containerBounds]): the nodes after the effect
LayoutEffect(cd, b, prev) ==
  IF cd # Null /\ b.width # 0 /\ b.height # 0
    THEN Some(CircleLayout(cd[1], b))
    ELSE prev

\* arrangeInCircle(containerBounds)
ArrangeInCircle(cd, b) ==
  [controlPlane |-> [x |-> b.width \div 2, y |-> b.height \div 2, ip |-> cd.control_plane.ip],
   workers |-> CircleWorkers(cd, b)]

\* Math.ceil(Math.sqrt(n))
CeilSqrt(n) == CHOOSE c \in 0..n : c * c >= n /\ (c = 0 \/ (c - 1) * (c - 1) < n)

\* arrangeInGrid with the worker ids counted from 0 (`worker${index}`)
ArrangeInGridZeroBased(cd, b) ==
  LET totalWorkers == Len(cd.workers)
      cols == CeilSqrt(totalWorkers)
      cellWidth == JsDiv(b.width - Px(100) * 2, cols)
      cellHeight == JsDiv(b.height - Px(100) * 2, cols)
  IN [controlPlane |-> [x |-> b.width \div 2, y |-> Px(100) \div 2, ip |-> cd.control_plane.ip],
      workers |->
        [index \in 1..totalWorkers |->
           LET row == (index - 1) \div cols
               col == (index - 1) % cols
           IN [id |-> WorkerId(index - 1),
               x |-> Px(100) + col * cellWidth + cellWidth \div 2,
               y |-> Px(100) + row * cellHeight + cellHeight \div 2,
               ip |-> cd.workers[index].ip]]]

\* arrangeInGrid placing each worker at the corner of its cell, not its centre
ArrangeInGridCellCorner(cd, b) ==
  LET totalWorkers == Len(cd.workers)
      cols == CeilSqrt(totalWorkers)
      cellWidth == JsDiv(b.width - Px(100) * 2, cols)
      cellHeight == JsDiv(b.height - Px(100) * 2, cols)
  IN [controlPlane |-> [x |-> b.width \div 2, y |-> Px(100) \div 2, ip |-> cd.control_plane.ip],
      workers |->
        [index \in 1..totalWorkers |->
           LET row == (index - 1) \div cols
               col == (index - 1) % cols
           IN [id |-> WorkerId(index),
               x |-> Px(100) + col * cellWidth,
               y |-> Px(100) + row * cellHeight,
               ip |-> cd.workers[index].ip]]]

\* arrangeInGrid centring the control plane over the cells it computed
\* (0 * Infinity and 0 * NaN are NaN)
ArrangeInGridOverCells(cd, b) ==
  LET totalWorkers == Len(cd.workers)
      cols == CeilSqrt(totalWorkers)
      cellWidth == JsDiv(b.width - Px(100) * 2, cols)
      cellHeight == JsDiv(b.height - Px(100) * 2, cols)
  IN [controlPlane |-> [x |-> IF cols = 0 THEN NaN ELSE Px(100) + (cols * cellWidth) \div 2,
                        y |-> Px(100) \div 2, ip |-> cd.control_plane.ip],
      workers |->
        [index \in 1..totalWorkers |->
           LET row == (index - 1) \div cols
               col == (index - 1) % cols
           IN [id |-> WorkerId(index),
               x |-> Px(100) + col * cellWidth + cellWidth \div 2,
               y |-> Px(100) + row * cellHeight + cellHeight \div 2,
               ip |-> cd.workers[index].ip]]]

\* arrangeInGrid taking the row, like the column, as the index modulo cols
ArrangeInGridRowModulo(cd, b) ==
  LET totalWorkers == Len(cd.workers)
      cols == CeilSqrt(totalWorkers)
      cellWidth == JsDiv(b.width - Px(100) * 2, cols)
      cellHeight == JsDiv(b.height - Px(100) * 2, cols)
  IN [controlPlane |-> [x |-> b.width \div 2, y |-> Px(100) \div 2, ip |-> cd.control_plane.ip],
      workers |->
        [index \in 1..totalWorkers |->
           LET row == (index - 1) % cols
               col == (index - 1) % cols
           IN [id |-> WorkerId(index),
               x |-> Px(100) + col * cellWidth + cellWidth \div 2,
               y |-> Px(100) + row * cellHeight + cellHeight \div 2,
               ip |-> cd.workers[index].ip]]]

\* arrangeInGrid(containerBounds)
ArrangeInGrid(cd, b) ==
  LET totalWorkers == Len(cd.workers)
      cols == CeilSqrt(totalWorkers)
      cellWidth == JsDiv(b.width - Px(100) * 2, cols)
      cellHeight == JsDiv(b.height - Px(100) * 2, cols)
  IN [controlPlane |-> [x |-> b.width \div 2, y |-> Px(100) \div 2, ip |-> cd.control_plane.ip],
      workers |->
        [index \in 1..totalWorkers |->
           LET row == (index - 1) \div cols
               col == (index - 1) % cols
           IN [id |-> WorkerId(index),
               x |-> Px(100) + col * cellWidth + cellWidth \div 2,
               y |-> Px(100) + row * cellHeight + cellHeight \div 2,
               ip |-> cd.workers[index].ip]]]

\* arrangeRandomly sampling each worker from [0, dimension - 2 * padding)
ArrangeRandomlyNoPadding(cd, b, rnd) ==
  [controlPlane |-> [x |-> b.width \div 2, y |-> b.height \div 2, ip |-> cd.control_plane.ip],
   workers |->
     [index \in 1..Len(cd.workers) |->
        [id |-> WorkerId(index),
         x |-> (rnd[index].x * (b.width - Px(100) * 2)) \div RandomUnit,
         y |-> (rnd[index].y * (b.height - Px(100) * 2)) \div RandomUnit,
         ip |-> cd.workers[index].ip]]]

\* arrangeRandomly(containerBounds); rnd[index] holds the two values
\* Math.random() returns for that worker
ArrangeRandomly(cd, b, rnd) ==
  [controlPlane |-> [x |-> b.width \div 2, y |-> b.height \div 2, ip |-> cd.control_plane.ip],
   workers |->
     [index \in 1..Len(cd.workers) |->
        [id |-> WorkerId(index),
         x |-> Px(100) + (rnd[index].x * (b.width - Px(100) * 2)) \div RandomUnit,
         y |-> Px(100) + (rnd[index].y * (b.height - Px(100) * 2)) \div RandomUnit,
         ip |-> cd.workers[index].ip]]]

\* handleRearrange keeping the control plane where it stands when a node set
\* exists already
HandleRearrangeKeepMoved(layout, cd, b, rnd) ==
  LET fresh == CASE layout = "circle" -> ArrangeInCircle(cd, b)
                 [] layout = "grid" -> ArrangeInGrid(cd, b)
                 [] layout = "random" -> ArrangeRandomly(cd, b, rnd)
  IN IF nodes = Null THEN fresh
     ELSE [fresh EXCEPT !.controlPlane = nodes[1].controlPlane]

\* handleRearrange(layout): the nodes it sets
HandleRearrange(layout, cd, b, rnd) ==
  CASE layout = "circle" -> ArrangeInCircle(cd, b)
    [] layout = "grid" -> ArrangeInGrid(cd, b)
    [] layout = "random" -> ArrangeRandomly(cd, b, rnd)

\* the sequences of Math.random() results tried for a call of
\* arrangeRandomly on n workers: the two samples, alternating from worker to
\* worker, in each of the four phases
RandomDraw(n, a, c) ==
  [index \in 1..n |->
     [x |-> IF (index + a) % 2 = 0 THEN 0 ELSE 999,
      y |-> IF (index + c) % 2 = 0 THEN 0 ELSE 999]]

RandomDraws(n) == { RandomDraw(n, a, c) : a \in {0, 1}, c \in {0, 1} }

\* the view ClusterVisualization renders
CVView == IF clusterData = Null THEN "Loading" ELSE "Topology"

\* VisualizationContainer (and .visualization-container) is in the document
VCMounted == cvMounted /\ clusterData # Null

(* ------------------------- NodeRenderer / drag ------------------------- *)
NodeKeys(ns) ==
  IF ns = Null THEN {} ELSE {ControlKey} \cup { ns[1].workers[i].id : i \in 1..Len(ns[1].workers) }

NodePos(ns, k) ==
  IF k = ControlKey THEN [x |-> ns[1].controlPlane.x, y |-> ns[1].controlPlane.y]
  ELSE LET i == CHOOSE j \in 1..Len(ns[1].workers) : ns[1].workers[j].id = k
       IN [x |-> ns[1].workers[i].x, y |-> ns[1].workers[i].y]

\* e.currentTarget.getBoundingClientRect() of the glyph of node k:
\* left/top = position, translated by (-50%, -50%), inside the padded container
GlyphRect(ns, k) ==
  LET p == NodePos(ns, k)
  IN [left |-> domRect.left + Px(containerPad) + p.x - Px(GlyphHalfW),
      top |-> domRect.top + Px(containerPad) + p.y - Px(GlyphHalfH),
      width |-> 2 * Px(GlyphHalfW),
      height |-> 2 * Px(GlyphHalfH)]

\* (a glyph whose left/top is NaN is taken to receive no pointer events)
Hits(ns, k, p) ==
  LET pos == NodePos(ns, k)
      r == GlyphRect(ns, k)
  IN /\ IsNumber(pos.x) /\ IsNumber(pos.y)
     /\ r.left <= p.x /\ p.x <= r.left + r.width
     /\ r.top <= p.y /\ p.y <= r.top + r.height

\* paint order: control plane first, then the workers in list order
PaintOrder(k) == IF k = ControlKey THEN 0 ELSE k[2]

\* the glyph that receives a pointer event at p (Null: none)
NodeAt(ns, p) ==
  LET hit == { k \in NodeKeys(ns) : Hits(ns, k, p) }
  IN IF ~VCMounted \/ hit = {} THEN Null
     ELSE Some(CHOOSE k \in hit : \A k2 \in hit : PaintOrder(k2) <= PaintOrder(k))

\* newX = Math.max(padding, Math.min(dimension - padding, newX))
padding == 50

\* the clamp without its upper bound
ClampLowerOnly(v, dimension) == MathMax(Px(padding), v)

Clamp(v, dimension) == MathMax(Px(padding), MathMin(dimension - Px(padding), v))

\* the updater rebuilding the moved worker as {id, x, y} (no spread: ip lost)
MoveNodeNoSpread(prev, dragged, newX, newY) ==
  IF prev = Null THEN prev
  ELSE IF dragged.type = "control"
    THEN Some([prev[1] EXCEPT !.controlPlane.x = newX, !.controlPlane.y = newY])
    ELSE Some([prev[1] EXCEPT !.workers =
                [i \in 1..Len(prev[1].workers) |->
                   IF prev[1].workers[i].id = dragged.id
                     THEN [id |-> prev[1].workers[i].id, x |-> newX, y |-> newY, ip |-> Null]
                     ELSE prev[1].workers[i]]])

\* setNodes(prev => ...) of handleMouseMove
MoveNode(prev, dragged, newX, newY) ==
  IF prev = Null THEN prev
  ELSE IF dragged.type = "control"
    THEN Some([prev[1] EXCEPT !.controlPlane.x = newX, !.controlPlane.y = newY])
    ELSE Some([prev[1] EXCEPT !.workers =
                [i \in 1..Len(prev[1].workers) |->
                   IF prev[1].workers[i].id = dragged.id
                     THEN [prev[1].workers[i] EXCEPT !.x = newX, !.y = newY]
                     ELSE prev[1].workers[i]]])

\* handleMouseMove(e, draggedNode, dragOffset) with containerBounds b
HandleMouseMove(prev, e, draggedNode, dragOffset, b) ==
  IF draggedNode # Null
    THEN LET newX == JsSub(JsSub(e.x, b.left), dragOffset.x)
             newY == JsSub(JsSub(e.y, b.top), dragOffset.y)
         IN MoveNode(prev, draggedNode[1], Clamp(newX, b.width), Clamp(newY, b.height))
    ELSE prev

\* setDraggedNode({type, id: workerId || 'control'})
DragRecord(k) ==
  IF k = ControlKey THEN [type |-> "control", id |-> ControlKey]
  ELSE [type |-> "worker", id |-> k]

Dragging == { k \in AllKeys : nrDragged[k] # Null }

(* --------------------------- ConnectionLines --------------------------- *)
\* the <line> elements of ConnectionLines for the nodes prop ns
ConnectionLines(ns) ==
  IF ns = Null THEN Null
  ELSE Some([i \in 1..Len(ns[1].workers) |->
               [key |-> ns[1].workers[i].id,
                x1 |-> ns[1].controlPlane.x, y1 |-> ns[1].controlPlane.y,
                x2 |-> ns[1].workers[i].x, y2 |-> ns[1].workers[i].y]])

\* a render that keeps the lines drawn for the same workers as they are
RenderAtDrawTime ==
  edges' = IF cvMounted' /\ clusterData' # Null
             THEN IF /\ edges # Null /\ nodes' # Null
                     /\ Len(edges[1]) = Len(nodes'[1].workers)
                     /\ \A i \in 1..Len(edges[1]) : edges[1][i].key = nodes'[1].workers[i].id
                    THEN edges
                    ELSE ConnectionLines(nodes')
             ELSE Null

\* the render React commits after a state change: VisualizationContainer
\* passes the new nodes to ConnectionLines while it is in the document
Render == edges' = IF cvMounted' /\ clusterData' # Null THEN ConnectionLines(nodes') ELSE Null

(* ------------------------------- Init ---------------------------------- *)
Event(type, target) == [type |-> type, target |-> target]

NoTarget == <<"none", 0>>

InitCVState ==
  /\ cvMounted = TRUE
  /\ cvFetch = "inflight"
  /\ clusterData = Null
  /\ nodes = Null
  /\ cvDraggedNode = Null
  /\ cvDragOffset = [x |-> 0, y |-> 0]
  /\ cvBounds = InitialBounds
  /\ cvTimer = TRUE
  /\ cvResize = TRUE
  /\ docMouseMove = 1
  /\ docMouseUp = 1
  /\ vcBounds = InitialBounds
  /\ vcTimer = FALSE
  /\ vcResize = FALSE
  /\ nrDragged = [k \in AllKeys |-> Null]
  /\ nrOffset = [k \in AllKeys |-> [x |-> 0, y |-> 0]]
  /\ ptr = FarPoint
  /\ button = FALSE
  /\ nPointer = 0
  /\ nResize = 0
  /\ lastEvent = Event("mount", NoTarget)
  /\ edges = Null
  /\ selectedNode = Null

InitCV == InitCVState /\ domRect \in DomRects

(* ------------------------- WorkerNodes page ---------------------------- *)
Reads == {"workers", "cluster"}

OtherRead(which) == IF which = "workers" THEN "cluster" ELSE "workers"

\* bodies of GET /api/worker-nodes as response.json() settles them:
\* not JSON, JSON without data, {data: [{id, ip, ...}]}
WorkerDetail(n) == [id |-> n, ip |-> WorkerIp(n)]

WorkersBodies ==
  { [valid |-> FALSE, hasData |-> FALSE, data |-> <<>>],
    [valid |-> TRUE, hasData |-> FALSE, data |-> <<>>] }
  \cup { [valid |-> TRUE, hasData |-> TRUE, data |-> [i \in 1..k |-> WorkerDetail(i)]] :
           k \in 0..MaxDetails }

\* bodies of GET /api/cluster: not JSON, JSON without data,
\* {data: {workers: [{ip, certs}], connectivity?}}
Cert(n) == [cert_type |-> "node", status |-> IF n % 2 = 1 THEN "Distributed" ELSE "Generated"]

ClusterWorker(n) == [ip |-> WorkerIp(n), certs |-> << Cert(n) >>]

Connectivities ==
  {Null} \cup { Some([total_nodes |-> MaxDetails + 1,
                      available_nodes |-> MaxDetails + 1 - Len(u),
                      unreachable_nodes |-> u]) :
                  u \in { <<>>, << WorkerIp(1) >>, << WorkerIp(2) >> } }

NoClusterData == [workers |-> <<>>, connectivity |-> Null]

ClusterBodies ==
  { [valid |-> FALSE, hasData |-> FALSE, data |-> NoClusterData],
    [valid |-> TRUE, hasData |-> FALSE, data |-> NoClusterData] }
  \cup { [valid |-> TRUE, hasData |-> TRUE,
          data |-> [workers |-> [i \in 1..k |-> ClusterWorker(i + o)], connectivity |-> c]] :
           k \in 0..MaxDetails, o \in {0, 1}, c \in Connectivities }

BodiesOf(which) == IF which = "workers" THEN WorkersBodies ELSE ClusterBodies

Includes(seq, v) == \E i \in 1..Len(seq) : seq[i] = v

\* clusterResult.data.workers.find(w => w.ip === worker.ip)?.certs || []
FindCerts(clusterWorkers, ip) ==
  IF \E i \in 1..Len(clusterWorkers) : clusterWorkers[i].ip = ip
    THEN clusterWorkers[CHOOSE i \in 1..Len(clusterWorkers) :
                          /\ clusterWorkers[i].ip = ip
                          /\ \A j \in 1..(i - 1) : clusterWorkers[j].ip # ip].certs
    ELSE <<>>

\* the map callback of the join throws a TypeError for some element
JoinThrows(wb, cb) ==
  \/ ~wb.hasData
  \/ /\ Len(wb.data) > 0
     /\ (~cb.hasData \/ cb.data.connectivity = Null)

\* the join pairing the records of the two reads by position, not by ip
JoinedWorkersByIndex(wb, cb) ==
  [i \in 1..Len(wb.data) |->
     [id |-> wb.data[i].id,
      ip |-> wb.data[i].ip,
      certs |-> IF i <= Len(cb.data.workers) THEN cb.data.workers[i].certs ELSE <<>>,
      isReachable |-> ~Includes(cb.data.connectivity[1].unreachable_nodes, wb.data[i].ip)]]

\* workersResult.data.map(worker => ({...worker, certs, isReachable}))
JoinedWorkers(wb, cb) ==
  [i \in 1..Len(wb.data) |->
     [id |-> wb.data[i].id,
      ip |-> wb.data[i].ip,
      certs |-> FindCerts(cb.data.workers, wb.data[i].ip),
      isReachable |-> ~Includes(cb.data.connectivity[1].unreachable_nodes, wb.data[i].ip)]]

ErrorMessage == "Failed to load worker nodes and cluster data"

\* the catch block
FetchDataCatch(st) == [st EXCEPT !.error = Some(ErrorMessage)]

\* the try block with setClusterData moved before the join
FetchDataPublishFirst(st, wb, cb) ==
  LET published == [st EXCEPT !.clusterData = IF cb.hasData THEN Some(cb.data) ELSE Null]
  IN IF JoinThrows(wb, cb)
       THEN FetchDataCatch(published)
       ELSE [published EXCEPT !.workers = JoinedWorkers(wb, cb)]

\* the try block after both bodies are parsed: join, setWorkers, setClusterData
FetchDataJoin(st, wb, cb) ==
  IF JoinThrows(wb, cb)
    THEN FetchDataCatch(st)
    ELSE [st EXCEPT !.workers = JoinedWorkers(wb, cb),
                    !.clusterData = IF cb.hasData THEN Some(cb.data) ELSE Null]

WNState == [workers |-> wnWorkers, clusterData |-> wnClusterData, error |-> wnError]

\* what WorkerNodes renders: the loading view, the error view, or the main
\* view, whose Connectivity Overview reads clusterData?.connectivity.total_nodes
\* and throws a TypeError when clusterData has no connectivity
WNView ==
  IF wnLoading THEN "Loading"
  ELSE IF wnError # Null THEN "Error"
  ELSE IF wnClusterData # Null /\ wnClusterData[1].connectivity = Null THEN "TypeError"
  ELSE "Main"

\* the state setters of fetchData, followed by finally { setLoading(false) }
WNSettle(st) ==
  /\ wnWorkers' = st.workers
  /\ wnClusterData' = st.clusterData
  /\ wnError' = st.error
  /\ wnLoading' = FALSE
  /\ wnPc' = "done"

InitWN ==
  /\ wnMounted = TRUE
  /\ wnWorkers = <<>>
  /\ wnClusterData = Null
  /\ wnLoading = TRUE
  /\ wnError = Null
  /\ wnPc = "fetching"
  /\ wnReq = [workers |-> "pending", cluster |-> "pending"]
  /\ wnBody = [workers |-> Null, cluster |-> Null]

\* one of the two fetch() promises settles; Promise.all rejects with the
\* first rejection and resolves when both have a response
WNFetchSettle(which, ok) ==
  /\ wnReq[which] = "pending"
  /\ wnReq' = [wnReq EXCEPT ![which] = IF ok THEN "response" ELSE "rejected"]
  /\ IF wnPc = "fetching" /\ ~ok
       THEN WNSettle(FetchDataCatch(WNState))
       ELSE /\ wnPc' = IF wnPc = "fetching" /\ wnReq[OtherRead(which)] = "response"
                         THEN "parsing" ELSE wnPc
            /\ UNCHANGED << wnWorkers, wnClusterData, wnError, wnLoading >>
  /\ UNCHANGED << wnMounted, wnBody >>
  /\ UNCHANGED << cvVars, cpVars, uiVars >>

\* one of the two response.json() promises settles
WNJsonSettle(which, body) ==
  /\ wnReq["workers"] = "response" /\ wnReq["cluster"] = "response"
  /\ wnBody[which] = Null
  /\ wnBody' = [wnBody EXCEPT ![which] = Some(body)]
  /\ IF wnPc = "parsing" /\ ~body.valid
       THEN WNSettle(FetchDataCatch(WNState))
       ELSE IF wnPc = "parsing" /\ wnBody[OtherRead(which)] # Null
         THEN WNSettle(FetchDataJoin(WNState, wnBody'["workers"][1], wnBody'["cluster"][1]))
         ELSE UNCHANGED << wnWorkers, wnClusterData, wnError, wnLoading, wnPc >>
  /\ UNCHANGED << wnMounted, wnReq >>
  /\ UNCHANGED << cvVars, cpVars, uiVars >>

\* the page is left: WorkerNodes unmounts (its effect has no cleanup)
WNUnmount ==
  /\ wnMounted
  /\ wnMounted' = FALSE
  /\ UNCHANGED << wnWorkers, wnClusterData, wnLoading, wnError, wnPc, wnReq, wnBody >>
  /\ UNCHANGED << cvVars, cpVars, uiVars >>

(* ------------------------- ControlPlane page --------------------------- *)
CPPayloads == { [version |-> v] : v \in 1..2 }

CPErrorMessage == "Failed to load control plane data"

\* the main view (with the Refresh and certificates buttons) is rendered
CPMainView == cpMounted /\ ~cpLoading /\ cpError = Null

InitCP ==
  /\ cpMounted = TRUE
  /\ cpInfo = Null
  /\ cpLoading = TRUE
  /\ cpError = Null
  /\ cpShowCertificates = FALSE
  /\ cpInFlight = {1}
  /\ cpStarted = 1
  /\ cpShown = 0

\* onClick={fetchData} of the Refresh Data button
CPRefresh ==
  /\ CPMainView
  /\ cpStarted < MaxCPFetches
  /\ cpStarted' = cpStarted + 1
  /\ cpInFlight' = cpInFlight \cup {cpStarted + 1}
  /\ UNCHANGED << cpMounted, cpInfo, cpLoading, cpError, cpShowCertificates, cpShown >>
  /\ UNCHANGED << cvVars, wnVars, uiVars >>

\* a call of fetchData completes: try (result = Some(data)) or catch, finally
CPFetchComplete(id, result) ==
  /\ id \in cpInFlight
  /\ cpInFlight' = cpInFlight \ {id}
  /\ IF result # Null
       THEN /\ cpInfo' = result
            /\ cpError' = Null
       ELSE /\ cpError' = Some(CPErrorMessage)
            /\ UNCHANGED cpInfo
  /\ cpLoading' = FALSE
  /\ cpShown' = id
  /\ UNCHANGED << cpMounted, cpShowCertificates, cpStarted >>
  /\ UNCHANGED << cvVars, wnVars, uiVars >>

\* the View Certificates button and the onClose of the certificate modal
CPSetShowCertificates(show) ==
  /\ CPMainView
  /\ cpShowCertificates # show
  /\ cpShowCertificates' = show
  /\ UNCHANGED << cpMounted, cpInfo, cpLoading, cpError, cpInFlight, cpStarted, cpShown >>
  /\ UNCHANGED << cvVars, wnVars, uiVars >>

CPUnmount ==
  /\ cpMounted
  /\ cpMounted' = FALSE
  /\ UNCHANGED << cpInfo, cpLoading, cpError, cpShowCertificates, cpInFlight, cpStarted,
                  cpShown >>
  /\ UNCHANGED << cvVars, wnVars, uiVars >>

Init == InitCV /\ InitWN /\ InitCP

(* ------------------------------ actions -------------------------------- *)
\* await fetch(API_URL): the request rejects, or a response arrives
CVFetchSettle(ok) ==
  /\ cvFetch = "inflight"
  /\ cvFetch' = IF ok THEN "parsing" ELSE "rejected"
  /\ lastEvent' = Event("fetch", NoTarget)
  /\ UNCHANGED << cvMounted, clusterData, nodes, cvDraggedNode, cvDragOffset, cvBounds,
                  cvTimer, cvResize, docMouseMove, docMouseUp, vcBounds, vcTimer,
                  vcResize, nrDragged, nrOffset, domRect, ptr, button, nPointer, nResize >>
  /\ Render
  /\ UNCHANGED << wnVars, cpVars, uiVars >>

\* await response.json() rejects: the catch block only logs
CVJsonMalformed ==
  /\ cvFetch = "parsing"
  /\ cvFetch' = "malformed"
  /\ lastEvent' = Event("fetch", NoTarget)
  /\ UNCHANGED << cvMounted, clusterData, nodes, cvDraggedNode, cvDragOffset, cvBounds,
                  cvTimer, cvResize, docMouseMove, docMouseUp, vcBounds, vcTimer,
                  vcResize, nrDragged, nrOffset, domRect, ptr, button, nPointer, nResize >>
  /\ Render
  /\ UNCHANGED << wnVars, cpVars, uiVars >>

\* await response.json() resolves: setClusterData(result.data); while mounted
\* the re-render mounts VisualizationContainer and runs the layout effect
CVJsonParsed(data) ==
  /\ cvFetch = "parsing"
  /\ cvFetch' = "ok"
  /\ clusterData' = Some(data)
  /\ IF cvMounted
       THEN /\ nodes' = LayoutEffect(Some(data), cvBounds, nodes)
            /\ vcTimer' = TRUE
            /\ vcResize' = TRUE
       ELSE UNCHANGED << nodes, vcTimer, vcResize >>
  /\ lastEvent' = Event("fetch", NoTarget)
  /\ UNCHANGED << cvMounted, cvDraggedNode, cvDragOffset, cvBounds, cvTimer, cvResize,
                  docMouseMove, docMouseUp, vcBounds, nrDragged, nrOffset, domRect,
                  ptr, button, nPointer, nResize >>
  /\ Render
  /\ UNCHANGED << wnVars, cpVars, uiVars >>

\* ClusterVisualization.updateBounds with the effects its state change triggers:
\* the layout effect and the re-registration of the document listeners
\* (the mouseup listener added is a new closure; the one removed is another)
CVUpdateBounds(run, rect) ==
  IF run /\ VCMounted
    THEN /\ cvBounds' = rect
         /\ nodes' = LayoutEffect(clusterData, rect, nodes)
         /\ docMouseUp' = docMouseUp + 1
         /\ docMouseMove' = docMouseMove - 1 + 1
    ELSE UNCHANGED << cvBounds, nodes, docMouseUp, docMouseMove >>

\* VisualizationContainer.updateBounds
VCUpdateBounds(run, rect) ==
  IF run /\ VCMounted
    THEN vcBounds' = rect
    ELSE UNCHANGED vcBounds

\* setTimeout(updateBounds, 100) of ClusterVisualization fires
CVTimer ==
  /\ cvTimer
  /\ cvTimer' = FALSE
  /\ CVUpdateBounds(TRUE, domRect)
  /\ lastEvent' = Event("cvTimer", NoTarget)
  /\ UNCHANGED << cvMounted, cvFetch, clusterData, cvDraggedNode, cvDragOffset, cvResize,
                  vcBounds, vcTimer, vcResize, nrDragged, nrOffset, domRect, ptr,
                  button, nPointer, nResize >>
  /\ Render
  /\ UNCHANGED << wnVars, cpVars, uiVars >>

\* setTimeout(updateBounds, 100) of VisualizationContainer fires; it was set
\* later than ClusterVisualization's, so it fires after it
VCTimer ==
  /\ vcTimer /\ ~cvTimer
  /\ vcTimer' = FALSE
  /\ VCUpdateBounds(TRUE, domRect)
  /\ lastEvent' = Event("vcTimer", NoTarget)
  /\ UNCHANGED << cvMounted, cvFetch, clusterData, nodes, cvDraggedNode, cvDragOffset,
                  cvBounds, cvTimer, cvResize, docMouseMove, docMouseUp, vcResize,
                  nrDragged, nrOffset, domRect, ptr, button, nPointer, nResize >>
  /\ Render
  /\ UNCHANGED << wnVars, cpVars, uiVars >>

\* a window resize event: the container box becomes rect, both listeners run
Resize(rect) ==
  /\ nResize < MaxResizes
  /\ nResize' = nResize + 1
  /\ domRect' = rect
  /\ CVUpdateBounds(cvResize, rect)
  /\ VCUpdateBounds(vcResize, rect)
  /\ lastEvent' = Event("resize", NoTarget)
  /\ UNCHANGED << cvMounted, cvFetch, clusterData, cvDraggedNode, cvDragOffset, cvTimer,
                  cvResize, vcTimer, vcResize, nrDragged, nrOffset, ptr, button, nPointer >>
  /\ Render
  /\ UNCHANGED << wnVars, cpVars, uiVars >>

\* the document-level mousemove listener: ClusterVisualization.handleMouseMove
DocMouseMove(prev, e) ==
  IF docMouseMove > 0
    THEN HandleMouseMove(prev, e, cvDraggedNode, cvDragOffset, cvBounds)
    ELSE prev

\* a mousemove event at p (which may be where the pointer already is): the
\* glyph under it gets onMouseMove, then the event reaches the document
MouseMove(p) ==
  /\ nPointer < MaxPointerEvents
  /\ nPointer' = nPointer + 1
  /\ ptr' = p
  /\ LET t == NodeAt(nodes, p)
         afterElement == IF t = Null THEN nodes
                         ELSE HandleMouseMove(nodes, p, nrDragged[t[1]], nrOffset[t[1]], vcBounds)
     IN /\ nodes' = DocMouseMove(afterElement, p)
        /\ lastEvent' = Event("mousemove", IF t = Null THEN NoTarget ELSE t[1])
  /\ UNCHANGED << cvMounted, cvFetch, clusterData, cvDraggedNode, cvDragOffset, cvBounds,
                  cvTimer, cvResize, docMouseMove, docMouseUp, vcBounds, vcTimer, vcResize,
                  nrDragged, nrOffset, domRect, button, nResize >>
  /\ Render
  /\ UNCHANGED << wnVars, cpVars, uiVars >>

\* the button is pressed: NodeRenderer.handleDragStart of the glyph under the
\* pointer (stopPropagation: nothing else sees the event)
MouseDown ==
  /\ nPointer < MaxPointerEvents
  /\ nPointer' = nPointer + 1
  /\ ~button
  /\ button' = TRUE
  /\ LET t == NodeAt(nodes, ptr)
     IN IF t = Null
          THEN /\ UNCHANGED << nrDragged, nrOffset >>
               /\ lastEvent' = Event("mousedown", NoTarget)
          ELSE LET bounds == GlyphRect(nodes, t[1])
               IN /\ nrDragged' = [nrDragged EXCEPT ![t[1]] = Some(DragRecord(t[1]))]
                  /\ nrOffset' = [nrOffset EXCEPT ![t[1]] =
                                    [x |-> ptr.x - bounds.left, y |-> ptr.y - bounds.top]]
                  /\ lastEvent' = Event("mousedown", t[1])
  /\ UNCHANGED << cvMounted, cvFetch, clusterData, nodes, cvDraggedNode, cvDragOffset,
                  cvBounds, cvTimer, cvResize, docMouseMove, docMouseUp, vcBounds, vcTimer,
                  vcResize, domRect, ptr, nResize >>
  /\ Render
  /\ UNCHANGED << wnVars, cpVars, uiVars >>

\* a release of the button that also re-runs the layout effect
MouseUpRelayout ==
  /\ nPointer < MaxPointerEvents
  /\ nPointer' = nPointer + 1
  /\ button
  /\ button' = FALSE
  /\ LET t == NodeAt(nodes, ptr)
     IN /\ nrDragged' = IF t = Null THEN nrDragged ELSE [nrDragged EXCEPT ![t[1]] = Null]
        /\ lastEvent' = Event("mouseup", IF t = Null THEN NoTarget ELSE t[1])
  /\ cvDraggedNode' = IF docMouseUp > 0 THEN Null ELSE cvDraggedNode
  /\ nodes' = LayoutEffect(clusterData, cvBounds, nodes)
  /\ UNCHANGED << cvMounted, cvFetch, clusterData, cvDragOffset, cvBounds, cvTimer,
                  cvResize, docMouseMove, docMouseUp, vcBounds, vcTimer, vcResize,
                  nrOffset, domRect, ptr, nResize >>
  /\ Render
  /\ UNCHANGED << wnVars, cpVars, uiVars >>

\* the button is released: onMouseUp of the glyph under the pointer, then
\* every mouseup listener on the document (each does setDraggedNode(null) of
\* ClusterVisualization)
MouseUp ==
  /\ nPointer < MaxPointerEvents
  /\ nPointer' = nPointer + 1
  /\ button
  /\ button' = FALSE
  /\ LET t == NodeAt(nodes, ptr)
     IN /\ nrDragged' = IF t = Null THEN nrDragged ELSE [nrDragged EXCEPT ![t[1]] = Null]
        /\ lastEvent' = Event("mouseup", IF t = Null THEN NoTarget ELSE t[1])
  /\ cvDraggedNode' = IF docMouseUp > 0 THEN Null ELSE cvDraggedNode
  /\ UNCHANGED << cvMounted, cvFetch, clusterData, nodes, cvDragOffset, cvBounds, cvTimer,
                  cvResize, docMouseMove, docMouseUp, vcBounds, vcTimer, vcResize,
                  nrOffset, domRect, ptr, nResize >>
  /\ Render
  /\ UNCHANGED << wnVars, cpVars, uiVars >>

\* an unmount whose cleanups leave the resize listeners and the
\* VisualizationContainer timer in place
CVUnmountKeepsListeners ==
  /\ cvMounted
  /\ nPointer < MaxPointerEvents
  /\ nPointer' = nPointer + 1
  /\ cvMounted' = FALSE
  /\ cvTimer' = FALSE
  /\ docMouseMove' = docMouseMove - 1
  /\ docMouseUp' = docMouseUp
  /\ lastEvent' = Event("unmount", NoTarget)
  /\ UNCHANGED << cvFetch, clusterData, nodes, cvDraggedNode, cvDragOffset, cvBounds,
                  vcBounds, nrDragged, nrOffset, domRect, ptr, button, nResize,
                  cvResize, vcTimer, vcResize >>
  /\ Render
  /\ UNCHANGED << wnVars, cpVars, uiVars >>

\* ClusterVisualization is unmounted (the user leaves the page, which counts
\* as one of the MaxPointerEvents user actions): the effect cleanups run
CVUnmount ==
  /\ cvMounted
  /\ nPointer < MaxPointerEvents
  /\ nPointer' = nPointer + 1
  /\ cvMounted' = FALSE
  /\ cvTimer' = FALSE
  /\ cvResize' = FALSE
  /\ vcTimer' = FALSE
  /\ vcResize' = FALSE
  /\ docMouseMove' = docMouseMove - 1
  /\ docMouseUp' = docMouseUp
  /\ lastEvent' = Event("unmount", NoTarget)
  /\ UNCHANGED << cvFetch, clusterData, nodes, cvDraggedNode, cvDragOffset, cvBounds,
                  vcBounds, nrDragged, nrOffset, domRect, ptr, button, nResize >>
  /\ Render
  /\ UNCHANGED << wnVars, cpVars, uiVars >>

\* a click on a ClusterControls button (the pointer is on the button, away
\* from the glyphs, and the mouse button was up before it):
\* handleRearrange(layout) with the containerBounds of ClusterVisualization
Rearrange(layout, rnd) ==
  /\ VCMounted
  /\ ~button
  /\ nPointer < MaxPointerEvents
  /\ nPointer' = nPointer + 1
  /\ ptr' = FarPoint
  /\ nodes' = Some(HandleRearrange(layout, clusterData[1], cvBounds, rnd))
  /\ lastEvent' = Event(layout, NoTarget)
  /\ UNCHANGED << cvMounted, cvFetch, clusterData, cvDraggedNode, cvDragOffset, cvBounds,
                  cvTimer, cvResize, docMouseMove, docMouseUp, vcBounds, vcTimer, vcResize,
                  nrDragged, nrOffset, domRect, button, nResize >>
  /\ Render
  /\ UNCHANGED << wnVars, cpVars, uiVars >>

(* ------------------- node cards, details modal, labels ---------------- *)
\* the decimal text of n is a prefix of the decimal text of m
RECURSIVE DecimalPrefix(_, _)
DecimalPrefix(n, m) == n = m \/ (m >= 10 /\ DecimalPrefix(n, m \div 10))

\* w.ip.includes(selectedNode) for a selectedNode `worker${n}`: a dotted
\* address has no letters; a host name worker{m}.local contains worker{n}
\* when the digits of n start the digits of m
IpIncludes(ip, sel) ==
  /\ Len(ip) = 3
  /\ ip[1] = "worker"
  /\ sel[1] = "worker"
  /\ DecimalPrefix(sel[2], ip[2])

\* the node prop of NodeModal (Null: undefined)
ModalNode(cd, sel) ==
  IF sel = ControlKey THEN Some(cd.control_plane)
  ELSE IF \E i \in 1..Len(cd.workers) : IpIncludes(cd.workers[i].ip, sel)
    THEN Some(cd.workers[CHOOSE i \in 1..Len(cd.workers) :
                           /\ IpIncludes(cd.workers[i].ip, sel)
                           /\ \A j \in 1..(i - 1) : ~IpIncludes(cd.workers[j].ip, sel)])
    ELSE Null

\* what the {selectedNode && <NodeModal .../>} part renders; NodeModal reads
\* node.name and throws a TypeError when node is undefined
ModalView ==
  IF ~cvMounted \/ clusterData = Null \/ selectedNode = Null THEN "none"
  ELSE IF ModalNode(clusterData[1], selectedNode[1]) = Null THEN "TypeError"
  ELSE "NodeModal"

\* the ids the node cards select: 'control' and `worker${index + 1}`
CardIds(cd) == {ControlKey} \cup { WorkerId(index) : index \in 1..Len(cd.workers) }

\* `Worker ${workerId.slice(-1)}`: the last character of worker{n} is the last
\* decimal digit of n
WorkerLabel(workerId) == <<"Worker ", workerId[2] % 10>>

\* clusterData.workers.find((w, index) => `worker${index + 1}` === workerId)
NodeData(cd, workerId) ==
  IF \E index \in 1..Len(cd.workers) : WorkerId(index) = workerId
    THEN Some(cd.workers[CHOOSE index \in 1..Len(cd.workers) : WorkerId(index) = workerId])
    ELSE Null

\* onAction of a node card: setSelectedNode(id)
SelectNode(id) ==
  /\ VCMounted
  /\ ModalView # "TypeError"
  /\ id \in CardIds(clusterData[1])
  /\ selectedNode' = Some(id)
  /\ UNCHANGED << cvVars, wnVars, cpVars >>

\* onClose of NodeModal: setSelectedNode(null)
CloseModal ==
  /\ ModalView = "NodeModal"
  /\ selectedNode' = Null
  /\ UNCHANGED << cvVars, wnVars, cpVars >>

\* the positions the pointer can move to
PointerTargets ==
  {FarPoint} \cup
  IF VCMounted /\ nodes # Null
    THEN { [x |-> domRect.left + Px(containerPad) + NodePos(nodes, k).x + d.x,
            y |-> domRect.top + Px(containerPad) + NodePos(nodes, k).y + d.y] :
             k \in { k2 \in NodeKeys(nodes) : IsNumber(NodePos(nodes, k2).x) },
             d \in PointerDeltas }
    ELSE {}

Next ==
  \/ \E ok \in BOOLEAN : CVFetchSettle(ok)
  \/ CVJsonMalformed
  \/ \E data \in ClusterPayloads : CVJsonParsed(data)
  \/ CVTimer
  \/ VCTimer
  \/ \E rect \in DomRects : Resize(rect)
  \/ \E p \in PointerTargets : MouseMove(p)
  \/ MouseDown
  \/ MouseUp
  \/ CVUnmount
  \/ \E layout \in {"circle", "grid"} : Rearrange(layout, <<>>)

Spec == Init /\ [][Next]_vars

\* the layout strategies on larger clusters and more container boxes
InitLayout == InitCVState /\ InitWN /\ InitCP /\ domRect \in LayoutRects

NextLayout ==
  \/ \E ok \in BOOLEAN : CVFetchSettle(ok)
  \/ \E data \in LayoutPayloads : CVJsonParsed(data)
  \/ CVTimer
  \/ VCTimer
  \/ \E rect \in LayoutRects : Resize(rect)
  \/ \E layout \in Layouts :
       \E rnd \in RandomDraws(IF clusterData = Null THEN 0 ELSE Len(clusterData[1].workers)) :
         Rearrange(layout, rnd)

SpecLayout == InitLayout /\ [][NextLayout]_vars

\* the node cards, the details modal and the glyph labels, on clusters of up
\* to MaxLabelWorkers workers
NextDetails ==
  \/ \E ok \in BOOLEAN : CVFetchSettle(ok)
  \/ \E data \in DetailPayloads : CVJsonParsed(data)
  \/ CVTimer
  \/ VCTimer
  \/ \E rect \in DomRects : Resize(rect)
  \/ \E id \in {ControlKey} \cup { WorkerId(n) : n \in 1..MaxLabelWorkers } : SelectNode(id)
  \/ CloseModal

SpecDetails == Init /\ [][NextDetails]_vars

NextWN ==
  \/ \E which \in Reads, ok \in BOOLEAN : WNFetchSettle(which, ok)
  \/ \E which \in Reads : \E body \in BodiesOf(which) : WNJsonSettle(which, body)
  \/ WNUnmount

\* the pages are independent of the visualizer: its container box is fixed
InitPage == Init /\ domRect.width = Px(400)

SpecWN == InitPage /\ [][NextWN]_vars

NextCP ==
  \/ CPRefresh
  \/ \E id \in 1..MaxCPFetches, result \in {Null} \cup { Some(d) : d \in CPPayloads } :
       CPFetchComplete(id, result)
  \/ \E show \in BOOLEAN : CPSetShowCertificates(show)
  \/ CPUnmount

SpecCP == InitPage /\ [][NextCP]_vars

(* ------------------------------ properties ----------------------------- *)
\* the step delivers a pointer-move / a pointer-up
IsPointerMove == nPointer' # nPointer /\ lastEvent'.type = "mousemove"

IsPointerUp == button /\ ~button'

\* the step re-runs the layout effect after a snapshot or bounds change
IsRecompute == lastEvent'.type \in {"fetch", "cvTimer", "resize"}

\* the current state is the result of a pointer-move that moved dragged node k
JustDragged(k) ==
  /\ lastEvent.type = "mousemove"
  /\ lastEvent.target = k
  /\ nrDragged[k] # Null

\* v brought to the nearest value of [lo, hi]
Nearest(v, lo, hi) == IF v < lo THEN lo ELSE IF v > hi THEN hi ELSE v

\* candidate position (pointer - offset relative to the viewport origin) of
\* node k for a pointer at p, and the clamped position the controller owes
Candidate(k, p) ==
  [x |-> p.x - vcBounds.left - nrOffset[k].x, y |-> p.y - vcBounds.top - nrOffset[k].y]

ClampedCandidate(k, p) ==
  [x |-> Nearest(Candidate(k, p).x, Px(50), vcBounds.width - Px(50)),
   y |-> Nearest(Candidate(k, p).y, Px(50), vcBounds.height - Px(50))]

\* VisualizationContainer has measured its bounds, at least w by h pixels
Measured(w, h) ==
  /\ IsNumber(vcBounds.left) /\ IsNumber(vcBounds.top)
  /\ vcBounds.width >= Px(w) /\ vcBounds.height >= Px(h)

\* C1: a node that a drag (in measured bounds) has just moved to P is still
\* at P after a recompute
\* of the NodeVisual set triggered by a snapshot or bounds change that keeps
\* its id
C1_MergePreservingRecompute ==
  [][ \A k \in AllKeys :
        (JustDragged(k) /\ Measured(100, 100) /\ IsRecompute /\ k \in NodeKeys(nodes'))
          => NodePos(nodes', k) = NodePos(nodes, k) ]_vars

\* C2: at most one node is in the Dragging state at any time
C2_SingleDrag == Cardinality(Dragging) <= 1

\* C3: every pointer-up returns the controller to Idle: after it no node is
\* in Dragging, wherever the pointer is
C3_PointerUpEndsDrag ==
  [][ IsPointerUp => \A k \in AllKeys : nrDragged'[k] = Null ]_vars

\* C4: while node k is in Dragging (with measured bounds of at least 100 x 100)
\* every pointer-move puts k at the clamped candidate position, also when the
\* pointer is not over the glyph
C4_MoveAlwaysTracks ==
  [][ \A k \in AllKeys :
        (IsPointerMove /\ Dragging = {k} /\ Measured(100, 100) /\ cvMounted)
          => NodePos(nodes', k) = ClampedCandidate(k, ptr') ]_vars

\* a pointer-move was delivered to the glyph of k while k is in Dragging
MoveProcessed(k) ==
  /\ IsPointerMove
  /\ lastEvent' = Event("mousemove", k)
  /\ nrDragged[k] # Null

\* the position of k after the step is the candidate clamped to
\* [50, width-50] x [50, height-50], and lies in that range
ClampHolds(k) ==
  LET pos == NodePos(nodes', k)
  IN /\ pos = ClampedCandidate(k, ptr')
     /\ Px(50) <= pos.x /\ pos.x <= vcBounds.width - Px(50)
     /\ Px(50) <= pos.y /\ pos.y <= vcBounds.height - Px(50)

\* C5 (as stated): for every pointer-move processed during a drag and every
\* (measured) viewport size the node's x lies in [50, width-50] and y in
\* [50, height-50], equal to the candidate or to the nearest boundary
C5_DragClampEveryViewport ==
  [][ \A k \in AllKeys : (MoveProcessed(k) /\ Measured(0, 0)) => ClampHolds(k) ]_vars

\* C5 (amended): the same for every viewport of at least 100 x 100, i.e.
\* whenever the interval [50, dimension-50] is not empty
C5_DragClamp ==
  [][ \A k \in AllKeys : (MoveProcessed(k) /\ Measured(100, 100)) => ClampHolds(k) ]_vars

\* C5 witness: a processed pointer-move whose candidate lay beyond the upper
\* boundary and that left the node on the boundary
C5_Witness ==
  \E k \in AllKeys :
    /\ JustDragged(k)
    /\ Measured(100, 100)
    /\ Candidate(k, ptr).x > vcBounds.width - Px(50)
    /\ NodePos(nodes, k).x = vcBounds.width - Px(50)

WNReadFailed == \E w \in Reads : wnReq[w] = "rejected"

WNParseFailed == \E w \in Reads : wnBody[w] # Null /\ ~wnBody[w][1].valid

WNBothParsed == \A w \in Reads : wnBody[w] # Null /\ wnBody[w][1].valid

WNJoinFailed == WNBothParsed /\ JoinThrows(wnBody["workers"][1], wnBody["cluster"][1])

\* C6: when a read, a parse or the join has failed, fetchData ends in the
\* error state with the worker list empty and the snapshot null; the worker
\* list and the snapshot are published only together, both reads having
\* succeeded
C6_FetchAllOrNothing ==
  /\ (wnPc = "done" /\ (WNReadFailed \/ WNParseFailed \/ WNJoinFailed))
       => (wnError # Null /\ ~wnLoading /\ wnWorkers = <<>> /\ wnClusterData = Null)
  /\ (wnWorkers # <<>> \/ wnClusterData # Null)
       => /\ \A w \in Reads : wnReq[w] = "response"
          /\ WNBothParsed
          /\ wnError = Null
          /\ wnClusterData = Some(wnBody["cluster"][1].data)
          /\ ~WNJoinFailed
          /\ wnWorkers = JoinedWorkers(wnBody["workers"][1], wnBody["cluster"][1])

\* C6 witness: both reads and both parses succeeded and the join failed
C6_Witness == wnPc = "done" /\ WNJoinFailed /\ wnBody["cluster"][1].hasData

\* C7: after a failed fetch of /api/cluster the view shows the
\* DataUnavailable error state and no NodeVisual set exists
C7_FetchFailureShown ==
  cvFetch \in {"rejected", "malformed"} => (CVView = "DataUnavailable" /\ nodes = Null)

\* C8: after the view is unmounted the completion of its fetch writes none of
\* its state
C8_DiscardAfterUnmount ==
  [][ ~wnMounted => UNCHANGED << wnWorkers, wnClusterData, wnError, wnLoading >> ]_vars

\* C9: at most one fetch of the view is in flight at any time
C9_NoOverlappingFetch == Cardinality(cpInFlight) <= 1

\* C10: at most one mousemove and one mouseup listener of the component are
\* on the document, and none once it is unmounted
C10_NoListenerLeak ==
  /\ docMouseMove <= 1
  /\ docMouseUp <= 1
  /\ ~cvMounted => (docMouseMove = 0 /\ docMouseUp = 0)

\* the NodeVisual set ns carries the identity of snapshot cd: one control
\* plane with the snapshot's control-plane ip, and for every i the i-th worker
\* (counted from 1) has id worker{i} and the ip of the i-th snapshot worker
IdentityOf(ns, cd) ==
  /\ ns.controlPlane.ip = cd.control_plane.ip
  /\ Len(ns.workers) = Len(cd.workers)
  /\ \A i \in 1..Len(ns.workers) :
       /\ ns.workers[i].id = <<"worker", i>>
       /\ ns.workers[i].ip = cd.workers[i].ip
  /\ \A i, j \in 1..Len(ns.workers) : i # j => ns.workers[i].id # ns.workers[j].id

OnlyMoved(k) ==
  /\ nodes' # Null
  /\ Len(nodes'[1].workers) = Len(nodes[1].workers)
  /\ nodes'[1].controlPlane.ip = nodes[1].controlPlane.ip
  /\ \A i \in 1..Len(nodes[1].workers) :
       /\ nodes'[1].workers[i].id = nodes[1].workers[i].id
       /\ nodes'[1].workers[i].ip = nodes[1].workers[i].ip
  /\ \A j \in NodeKeys(nodes) \ {k} : NodePos(nodes', j) = NodePos(nodes, j)

Dist2(p, q) ==
  LET dx == (p.x - q.x) \div Scale
      dy == (p.y - q.y) \div Scale
  IN dx * dx + dy * dy

Abs(a) == IF a < 0 THEN 0 - a ELSE a

\* the nodes were last set by the automatic layout or by arrangeInCircle
CircleJustLaidOut ==
  /\ nodes # Null
  /\ lastEvent.type \in {"fetch", "cvTimer", "resize", "circle"}

\* the worker after worker i on the circle
Succ(i, n) == IF i = n THEN 1 ELSE i + 1

\* ns is the circle layout for bounds w x h: the control plane at the centre,
\* worker 0 at angle 0, every worker at distance r = 0.3 * min(w, h) from the
\* centre (to within a pixel), workers at pairwise distinct points, turning
\* clockwise on the screen, consecutive workers equally far apart
IsCircle(ns, w, h) ==
  LET n == Len(ns.workers)
      rpx == ((IF w <= h THEN w ELSE h) * 3) \div (10 * Scale)
      centre == [x |-> w \div 2, y |-> h \div 2]
      tol == 2 * rpx + 1
  IN /\ ns.controlPlane.x = centre.x /\ ns.controlPlane.y = centre.y
     /\ ns.workers[1].x = centre.x + rpx * Scale /\ ns.workers[1].y = centre.y
     /\ \A i \in 1..n : Abs(Dist2(ns.workers[i], centre) - rpx * rpx) <= tol
     /\ \A i, j \in 1..n : i # j => Dist2(ns.workers[i], ns.workers[j]) > 0
     /\ n >= 2 => ns.workers[2].y >= centre.y
     /\ \A i \in 1..n :
          Abs(Dist2(ns.workers[i], ns.workers[Succ(i, n)])
                - Dist2(ns.workers[1], ns.workers[Succ(1, n)])) <= 12 * rpx + 9

\* C13: for n >= 1 workers and bounds with w, h > 0 the automatic layout and
\* arrangeInCircle put the control plane at (w/2, h/2) and worker i at
\* distance 0.3 * min(w, h) from it at angle 2*pi*i/n: all workers on that
\* circle, at distinct angles evenly spaced from angle 0
C13_CircleLayout ==
  (CircleJustLaidOut /\ Len(nodes[1].workers) >= 1 /\ cvBounds.width > 0 /\ cvBounds.height > 0)
    => IsCircle(nodes[1], cvBounds.width, cvBounds.height)

\* C13 witness: arrangeInCircle on 3 workers in 800 x 500 put the second
\* worker at 120 degrees, radius 150, around (400, 250)
C13_Witness ==
  /\ CircleJustLaidOut
  /\ lastEvent.type = "circle"
  /\ cvBounds.width = Px(800) /\ cvBounds.height = Px(500)
  /\ Len(nodes[1].workers) = 3
  /\ nodes[1].workers[2].x = Px(325)
  /\ nodes[1].workers[2].y = 379900

\* the nodes were last set by arrangeInGrid, for at least one worker
GridJustLaidOut ==
  /\ nodes # Null
  /\ lastEvent.type = "grid"
  /\ Len(nodes[1].workers) >= 1

\* every worker lies strictly inside the area padded by 100
StrictlyInsidePadding ==
  \A i \in 1..Len(nodes[1].workers) :
    /\ Px(100) < nodes[1].workers[i].x /\ nodes[1].workers[i].x < cvBounds.width - Px(100)
    /\ Px(100) < nodes[1].workers[i].y /\ nodes[1].workers[i].y < cvBounds.height - Px(100)

\* C14 (as stated): for every n >= 1 and every viewport each worker
\* coordinate of arrangeInGrid satisfies 100 < x < w-100 and 100 < y < h-100
C14_GridInsideEveryViewport == GridJustLaidOut => StrictlyInsidePadding

\* C14 (amended): the same for every viewport with w > 200 and h > 200, i.e.
\* whenever the padded area is not empty
C14_GridInside ==
  (GridJustLaidOut /\ cvBounds.width > Px(200) /\ cvBounds.height > Px(200))
    => StrictlyInsidePadding

\* C14 witness: arrangeInGrid on 3 workers in 800 x 500 put the third worker
\* in the first cell of the second row
C14_Witness ==
  /\ GridJustLaidOut
  /\ cvBounds.width = Px(800) /\ cvBounds.height = Px(500)
  /\ Len(nodes[1].workers) = 3
  /\ nodes[1].workers[3].x = Px(250)
  /\ nodes[1].workers[3].y = Px(325)

\* the nodes were last set by one of the three strategies of handleRearrange
RearrangeJustDone == nodes # Null /\ lastEvent.type \in Layouts

AtOrigin(n) == n.x = 0 /\ n.y = 0

\* C15: with bounds of zero width and height each of circle, grid and random
\* places the control plane and every worker at the origin (0, 0)
C15_ZeroViewportOrigin ==
  (RearrangeJustDone /\ cvBounds.width = 0 /\ cvBounds.height = 0)
    => /\ AtOrigin(nodes[1].controlPlane)
       /\ \A i \in 1..Len(nodes[1].workers) : AtOrigin(nodes[1].workers[i])

\* the nodes were last set by the automatic layout or by a strategy
LayoutJustDone ==
  nodes # Null /\ lastEvent.type \in ({"fetch", "cvTimer", "resize"} \cup Layouts)

\* C16: for a snapshot without workers the automatic layout and each of
\* circle, grid and random yield no worker nodes and a control plane at
\* finite coordinates: the centre of the bounds, or (w/2, 50) for grid
C16_ZeroWorkers ==
  (LayoutJustDone /\ Len(clusterData[1].workers) = 0)
    => /\ Len(nodes[1].workers) = 0
       /\ IsFinite(nodes[1].controlPlane.x) /\ IsFinite(nodes[1].controlPlane.y)
       /\ nodes[1].controlPlane.x = cvBounds.width \div 2
       /\ nodes[1].controlPlane.y =
            IF lastEvent.type = "grid" THEN Px(50) ELSE cvBounds.height \div 2

\* C16 witness: arrangeInGrid has run on a snapshot without workers in
\* measured bounds
C16_Witness ==
  /\ LayoutJustDone
  /\ lastEvent.type = "grid"
  /\ Len(clusterData[1].workers) = 0
  /\ cvBounds.width = Px(800)
  /\ nodes[1].controlPlane.x = Px(400)

WNPublished == wnPc = "done" /\ wnError = Null

\* C18: each published worker is the worker-detail record of the same
\* position with isReachable true exactly when its ip is not in the cluster
\* response's unreachable list, and with the certs of the cluster worker of
\* the same ip, or no certs when there is none; number and order are kept
C18_JoinByIp ==
  WNPublished =>
    LET details == wnBody["workers"][1].data
        cluster == wnBody["cluster"][1].data
    IN /\ Len(wnWorkers) = Len(details)
       /\ \A i \in 1..Len(details) :
            /\ wnWorkers[i].id = details[i].id
            /\ wnWorkers[i].ip = details[i].ip
            /\ wnWorkers[i].isReachable <=>
                 (\A j \in 1..Len(cluster.connectivity[1].unreachable_nodes) :
                    cluster.connectivity[1].unreachable_nodes[j] # details[i].ip)
            /\ \A j \in 1..Len(cluster.workers) :
                 cluster.workers[j].ip = details[i].ip
                   => wnWorkers[i].certs = cluster.workers[j].certs
            /\ (\A j \in 1..Len(cluster.workers) : cluster.workers[j].ip # details[i].ip)
                 => wnWorkers[i].certs = <<>>

\* C18 witness: two workers published, the first unreachable and unknown to
\* /api/cluster, the second reachable with the certs of its cluster entry
C18_Witness ==
  /\ WNPublished
  /\ Len(wnWorkers) = 2
  /\ ~wnWorkers[1].isReachable /\ wnWorkers[1].certs = <<>>
  /\ wnWorkers[2].isReachable /\ wnWorkers[2].certs # <<>>

\* both reads succeeded and /api/cluster answered without connectivity
WNNoConnectivity ==
  /\ wnPc = "done"
  /\ WNBothParsed
  /\ wnBody["workers"][1].hasData /\ wnBody["cluster"][1].hasData
  /\ wnBody["cluster"][1].data.connectivity = Null

\* C19: when both reads succeed and the /api/cluster payload has no
\* connectivity, the worker list is published, the view is not in the error
\* state and nothing throws
C19_MissingConnectivityTolerated ==
  WNNoConnectivity =>
    /\ wnError = Null
    /\ Len(wnWorkers) = Len(wnBody["workers"][1].data)
    /\ WNView = "Main"

\* C20: once the component is unmounted its resize listeners are not
\* registered and its settle-delay timers are not pending, for both
\* ClusterVisualization and VisualizationContainer, and no step changes the
\* bounds of either
C20_BoundsTrackerTeardown ==
  [][ ~cvMounted' =>
        /\ ~cvResize' /\ ~cvTimer' /\ ~vcResize' /\ ~vcTimer'
        /\ ~cvMounted => UNCHANGED << cvBounds, vcBounds >> ]_vars

\* C20 witness: a resize event arrived after the unmount of a component that
\* had measured its bounds, and the bounds were not measured again
C20_Witness ==
  /\ ~cvMounted
  /\ lastEvent.type = "resize"
  /\ IsNumber(cvBounds.left) /\ IsNumber(vcBounds.left)
  /\ cvBounds.width # domRect.width
  /\ vcBounds.width # domRect.width

(* ------------------------------- C21 ----------------------------------- *)
RandomJustLaidOut == nodes # Null /\ lastEvent.type = "random"

\* C21: after arrangeRandomly on a viewport at least 2 * padding = 200 wide
\* and high, every worker has x in [100, w - 100] and y in [100, h - 100], and
\* the control plane is at the centre (w / 2, h / 2) of the bounds.
C21_RandomInside ==
  (RandomJustLaidOut /\ cvBounds.width >= Px(200) /\ cvBounds.height >= Px(200)) =>
    /\ nodes[1].controlPlane.x = cvBounds.width \div 2
    /\ nodes[1].controlPlane.y = cvBounds.height \div 2
    /\ \A i \in 1..Len(nodes[1].workers) :
         /\ nodes[1].workers[i].x >= Px(100)
         /\ nodes[1].workers[i].x <= cvBounds.width - Px(100)
         /\ nodes[1].workers[i].y >= Px(100)
         /\ nodes[1].workers[i].y <= cvBounds.height - Px(100)

\* C21 witness: a random layout of several workers on the 800 x 500 viewport
\* with one worker drawn at the low end of the x range and another at the
\* high end
C21_Witness ==
  /\ RandomJustLaidOut
  /\ cvBounds.width = Px(800)
  /\ Len(nodes[1].workers) >= 2
  /\ \E i, j \in 1..Len(nodes[1].workers) :
       /\ nodes[1].workers[i].x = Px(100)
       /\ nodes[1].workers[j].x > Px(699)

(* ------------------------------- C22 ----------------------------------- *)
\* C22: a pointer-up, on a node or on the document, leaves every node position
\* as it was: releasing the button does not run the layout recompute.
C22_PointerUpKeepsPositions ==
  [][ IsPointerUp => nodes' = nodes ]_vars

\* C22 witness: the button has just been released over measured bounds while
\* the control plane stands where a drag left it (every layout centres it
\* horizontally), which is not where the layout recompute would put it
C22_Witness ==
  /\ lastEvent.type = "mouseup"
  /\ nodes # Null
  /\ cvBounds.width # 0
  /\ IsNumber(nodes[1].controlPlane.x)
  /\ nodes[1].controlPlane.x # cvBounds.width \div 2
  /\ nodes # LayoutEffect(clusterData, cvBounds, nodes)

(* ------------------------------- C23 ----------------------------------- *)
\* the step is a click on the ClusterControls button of the given layout
IsRearrange(layout) == nPointer' # nPointer /\ lastEvent'.type = layout

C24_LayoutAppears ==
  ( /\ cvMounted
    /\ cvFetch = "ok"
    /\ ~cvTimer
    /\ ~vcTimer
    /\ nResize = 0
    /\ domRect.width # 0
    /\ domRect.height # 0 ) => nodes # Null

(* ------------------------------- C25 ----------------------------------- *)
\* C25: whenever a node set exists and a pointer-move of a drag has been
\* processed, the bounds VisualizationContainer clamps with are a measured
\* rectangle (left and top defined) equal to the bounds ClusterVisualization
\* laid the nodes out with; and every node coordinate is a finite number.
C25_DragUsesMeasuredBounds ==
  /\ \A k \in AllKeys :
       (JustDragged(k) /\ nodes # Null) =>
         /\ IsNumber(vcBounds.left)
         /\ IsNumber(vcBounds.top)
         /\ vcBounds = cvBounds
  /\ nodes # Null =>
       \A k \in NodeKeys(nodes) :
         IsFinite(NodePos(nodes, k).x) /\ IsFinite(NodePos(nodes, k).y)

(* ------------------------------- C26 ----------------------------------- *)
\* the position of node k is inside the clamp range of the measured bounds
InsideClampRange(k) ==
  LET pos == NodePos(nodes, k)
  IN /\ IsNumber(pos.x) /\ IsNumber(pos.y)
     /\ Px(50) <= pos.x /\ pos.x <= vcBounds.width - Px(50)
     /\ Px(50) <= pos.y /\ pos.y <= vcBounds.height - Px(50)

\* C26: a pointer-down on a node inside the clamp range followed by a
\* pointer-move at exactly the same pointer coordinates leaves the node's
\* (x, y) unchanged (the bounds being measured and current).
C26_ZeroDisplacementDrag ==
  [][ \A k \in AllKeys :
        ( /\ MoveProcessed(k)
          /\ ptr' = ptr
          /\ lastEvent = Event("mousedown", k)
          /\ nodes # Null
          /\ vcBounds = domRect
          /\ InsideClampRange(k) )
          => NodePos(nodes', k) = NodePos(nodes, k) ]_vars

(* ------------------------------- C27 ----------------------------------- *)
\* C27: when the Details action of the i-th node card (id worker{i}, counting
\* from 1) has selected a worker, NodeModal is rendered with the record of
\* that worker in the current snapshot; and no selection makes the render
\* throw.
C27_DetailsResolveWorker ==
  (VCMounted /\ selectedNode # Null) =>
    /\ ModalView = "NodeModal"
    /\ \A i \in 1..Len(clusterData[1].workers) :
         selectedNode = Some(WorkerId(i)) =>
           ModalNode(clusterData[1], WorkerId(i)) = Some(clusterData[1].workers[i])

(* ------------------------------- C28 ----------------------------------- *)
\* C28: on the ControlPlane page, once every started fetch has completed, the
\* displayed data and error state are those written by the completion of the
\* most recently started fetch.
C28_LatestRefreshWins ==
  (cpMounted /\ cpInFlight = {}) => cpShown = cpStarted

(* ------------------------------- C29 ----------------------------------- *)
\* the least c with c * c >= n, for n >= 1
GridCols(n) == CHOOSE c \in 1..n : c * c >= n /\ (c - 1) * (c - 1) < n

\* the (row, col) cell of the padded area, cut into cols x cols cells, that
\* the point (x, y) lies in
GridCellOf(x, y, cols) ==
  [row |-> (y - Px(100)) \div ((cvBounds.height - Px(200)) \div cols),
   col |-> (x - Px(100)) \div ((cvBounds.width - Px(200)) \div cols)]

\* C29: after arrangeInGrid on n >= 1 workers and a viewport with w, h > 200,
\* the i-th worker (counting from 0) lies in cell (floor(i / cols), i mod cols)
\* with cols = ceil(sqrt(n)), its row is below cols, and no two workers have
\* the same coordinates.
C29_GridCellsNotShared ==
  ( /\ GridJustLaidOut
    /\ Len(nodes[1].workers) >= 1
    /\ cvBounds.width > Px(200)
    /\ cvBounds.height > Px(200) ) =>
    LET ws == nodes[1].workers
        cols == GridCols(Len(ws))
    IN /\ \A i \in 1..Len(ws) :
            /\ GridCellOf(ws[i].x, ws[i].y, cols) =
                 [row |-> (i - 1) \div cols, col |-> (i - 1) % cols]
            /\ (i - 1) \div cols < cols
       /\ \A i, j \in 1..Len(ws) :
            i # j => (ws[i].x # ws[j].x \/ ws[i].y # ws[j].y)

\* C29 witness: a grid of three workers on the 800 x 500 viewport, where the
\* third worker starts the second row under the first worker
C29_Witness ==
  /\ GridJustLaidOut
  /\ cvBounds.width = Px(800)
  /\ Len(nodes[1].workers) = 3
  /\ nodes[1].workers[3].x = nodes[1].workers[1].x
  /\ nodes[1].workers[3].y > nodes[1].workers[1].y
  /\ nodes[1].workers[2].x > nodes[1].workers[1].x

(* ------------------------------- C30 ----------------------------------- *)
\* C30: for every worker node with id worker{n}, n >= 1 (n >= 10 included),
\* the glyph label is 'Worker n' and the node data shown for it is the n-th
\* worker (counting from 1) of the snapshot.
C30_LabelMatchesId ==
  (VCMounted /\ nodes # Null) =>
    \A n \in 1..Len(nodes[1].workers) :
      LET workerId == nodes[1].workers[n].id
      IN /\ workerId = WorkerId(n)
         /\ WorkerLabel(workerId) = <<"Worker ", n>>
         /\ NodeData(clusterData[1], workerId) = Some(clusterData[1].workers[n])

====
